---------------------------- MODULE Spec2Model ----------------------------
(***************************************************************************)
(* Model of star_oaipmh_harvest.py: the OAI-PMH harvest loop (harvest),    *)
(* the page parser (parse_page) and the record extractor (extract_record). *)
(*                                                                         *)
(* Text.  A Python str is modelled as a finite sequence of atoms.  An atom *)
(* is a fixed non-empty run of characters: either the single whitespace   *)
(* character " ", the single character ":", "|", "-", "?", or a run of     *)
(* letters/digits ("Open", "ddc", "2019").  Two different atom sequences   *)
(* used by the model denote two different Python strings.  The empty str   *)
(* is << >>.                                                               *)
(*                                                                         *)
(* Optional values (None in Python, an absent XML attribute, an xpath      *)
(* result that may be empty) are sequences of length at most one:          *)
(* << >> is None/absent and << v >> is the value v.                        *)
(***************************************************************************)
EXTENDS Integers, Sequences, FiniteSets, TLC

-----------------------------------------------------------------------------
(* Bounds of the model *)

\* the endpoint holds at most MaxFetch pages
MaxFetch == 3
\* the largest --max-pages value tried
MaxLimit == 3
\* the longest list of setSpec nodes given to extract_record
MaxTags == 4
\* the longest list of description nodes given to extract_record
MaxDescs == 3

-----------------------------------------------------------------------------
(* str helpers *)

None == << >>
Some(v) == << v >>

\* str.isspace for one atom
IsSpace(a) == a \in {" ", "\n"}

RECURSIVE LStrip(_)
LStrip(s) ==
    IF s = << >> THEN << >>
    ELSE IF IsSpace(Head(s)) THEN LStrip(Tail(s)) ELSE s

RECURSIVE RStrip(_)
RStrip(s) ==
    IF s = << >> THEN << >>
    ELSE IF IsSpace(s[Len(s)]) THEN RStrip(SubSeq(s, 1, Len(s) - 1)) ELSE s

\* a str that strip() empties
IsBlank(s) == \A i \in DOMAIN s : IsSpace(s[i])

\* str.strip()
Strip(s) == RStrip(LStrip(s))

\* str.lower() of one atom
LowerAtom(a) ==
    CASE a = "Open"   -> "open"
      [] a = "OPEN"   -> "open"
      [] a = "Access" -> "access"
      [] a = "ACCESS" -> "access"
      [] OTHER        -> a

\* str.lower()
Lower(s) == [i \in DOMAIN s |-> LowerAtom(s[i])]

\* the literal "open access"
OPEN_ACCESS == <<"open", " ", "access">>

\* sep.join(list)
RECURSIVE Join(_, _)
Join(list, sep) ==
    IF list = << >> THEN << >>
    ELSE IF Len(list) = 1 THEN list[1]
    ELSE list[1] \o sep \o Join(Tail(list), sep)

\* (n.text or "") : the text of an element, None when the element is empty
TextOr(n) == IF n.text = None THEN << >> ELSE n.text[1]

\* texts(nodes), lines 50-56
RECURSIVE texts(_)
texts(nodes) ==
    IF nodes = << >> THEN << >>
    ELSE LET t == Strip(TextOr(Head(nodes)))
         IN  IF t # << >> THEN <<t>> \o texts(Tail(nodes))
             ELSE texts(Tail(nodes))

\* join_texts(nodes, sep), lines 58-59
join_texts(nodes, sep) == Join(texts(nodes), sep)

SepBar == <<" ", "|", " ">>
SepPara == <<"\n", "\n">>

-----------------------------------------------------------------------------
(* extract_year, lines 61-66 *)

\* \d{2}-completed atoms matching (18|19|20)\d{2}; a digit run is one atom
YearAtoms == {"1850", "1998", "2019"}

\* \w characters: an atom that is a run of letters/digits
IsWordAtom(a) == a \notin {" ", "\n", ":", "|", "-", "?"}

\* positions where \b(18|19|20)\d{2}\b matches
YearMatches(s) ==
    {i \in DOMAIN s :
        /\ s[i] \in YearAtoms
        /\ (i = 1 \/ ~IsWordAtom(s[i - 1]))
        /\ (i = Len(s) \/ ~IsWordAtom(s[i + 1]))}

extract_year(date_str) ==
    IF date_str = << >> THEN << >>
    ELSE LET m == YearMatches(date_str)
         IN  IF m = {} THEN << >>
             ELSE <<date_str[CHOOSE i \in m : \A j \in m : i <= j]>>

-----------------------------------------------------------------------------
(* oai_params, lines 68-74.  A dict is the set of its (key, value) pairs. *)

\* truthiness of an Optional[str]: None and "" are falsy
Truthy(opt) == IF opt = None THEN FALSE ELSE opt[1] # << >>

\* mutant: the first-page parameters are sent along with the token
oai_params_KeepPrefix(metadata_prefix, set_spec, token) ==
    {<<"verb", <<"ListRecords">>>>, <<"metadataPrefix", metadata_prefix>>}
    \cup (IF Truthy(set_spec) THEN {<<"set", set_spec[1]>>} ELSE {})
    \cup (IF Truthy(token) THEN {<<"resumptionToken", token[1]>>} ELSE {})

oai_params(metadata_prefix, set_spec, token) ==
    IF Truthy(token)
    THEN {<<"verb", <<"ListRecords">>>>, <<"resumptionToken", token[1]>>}
    ELSE {<<"verb", <<"ListRecords">>>>, <<"metadataPrefix", metadata_prefix>>}
         \cup (IF Truthy(set_spec) THEN {<<"set", set_spec[1]>>} ELSE {})

-----------------------------------------------------------------------------
(* parse_page, lines 76-85.  A parsed response document is                 *)
(* [records : the oai:record nodes, token_el : the resumptionToken nodes]. *)

\* mutant: the cursor is not stripped
parse_token_NoStrip(token_el) ==
    IF token_el # << >> THEN TextOr(token_el[1]) ELSE << >>

parse_token(token_el) ==
    IF token_el # << >> THEN Strip(TextOr(token_el[1])) ELSE << >>

parse_page(doc) == [records |-> doc.records, token |-> parse_token(doc.token_el)]

-----------------------------------------------------------------------------
(* has_open_access, lines 87-90 *)

IsOpenAccessValue(rv) == Lower(Strip(rv)) = OPEN_ACCESS

\* mutant: the comparison is case-sensitive
has_open_access_CaseSensitive(dc_root) ==
    LET rights_vals == texts(dc_root.rights)
    IN  \E i \in DOMAIN rights_vals : Strip(rights_vals[i]) = <<"Open", " ", "Access">>

has_open_access(dc_root) ==
    LET rights_vals == texts(dc_root.rights)
    IN  \E i \in DOMAIN rights_vals : IsOpenAccessValue(rights_vals[i])

-----------------------------------------------------------------------------
(* extract_record, lines 96-186.                                           *)
(* A record node is [identifier, status : str, setSpec : nodes,            *)
(* md : the oai:metadata/oai_dc:dc nodes]; a dc node holds one list of     *)
(* nodes per Dublin Core label; a description node also has lang, the      *)
(* optional xml:lang attribute.                                            *)

\* s.startswith("ddc:")
StartsWithDdc(s) == Len(s) >= 2 /\ s[1] = "ddc" /\ s[2] = ":"

\* ":" in s
HasColon(s) == \E i \in DOMAIN s : s[i] = ":"

DIFFUSABLE == <<"diffusable">>

\* state of the loop of lines 104-106
SetsInit == [set_ddc |-> << >>, set_etab |-> << >>, is_diffusable |-> <<"0">>]

\* mutant: a later institution candidate replaces the first
SetStep_LastEtab(acc, s) ==
    IF StartsWithDdc(s) THEN [acc EXCEPT !.set_ddc = s]
    ELSE IF s = DIFFUSABLE THEN [acc EXCEPT !.is_diffusable = <<"1">>]
    ELSE IF ~HasColon(s) /\ s # DIFFUSABLE
         THEN [acc EXCEPT !.set_etab = s]
         ELSE acc

\* one iteration of the loop body, lines 109-117
SetStep(acc, s) ==
    IF StartsWithDdc(s) THEN [acc EXCEPT !.set_ddc = s]
    ELSE IF s = DIFFUSABLE THEN [acc EXCEPT !.is_diffusable = <<"1">>]
    ELSE IF ~HasColon(s) /\ s # DIFFUSABLE
         THEN IF acc.set_etab = << >> THEN [acc EXCEPT !.set_etab = s] ELSE acc
         ELSE acc

\* for s in sets, lines 108-117
RECURSIVE ClassifySets(_, _)
ClassifySets(acc, sets) ==
    IF sets = << >> THEN acc
    ELSE ClassifySets(SetStep(acc, Head(sets)), Tail(sets))

\* xpath predicates of lines 172-174
IsFr(n) == n.lang = Some("fr")
IsEn(n) == n.lang = Some("en")
IsNoLang(n) == n.lang = None

\* mutant: the fallback is taken only when there is no fr-tagged element
description_fr_ElementTest(dc_root) ==
    LET desc_fr     == SelectSeq(dc_root.description, IsFr)
        desc_nolang == SelectSeq(dc_root.description, IsNoLang)
    IN  IF desc_fr = << >> /\ desc_nolang # << >>
        THEN join_texts(desc_nolang, SepPara)
        ELSE join_texts(desc_fr, SepPara)

\* lines 176-179
description_fr(dc_root) ==
    LET desc_fr     == SelectSeq(dc_root.description, IsFr)
        desc_nolang == SelectSeq(dc_root.description, IsNoLang)
        fr          == join_texts(desc_fr, SepPara)
    IN  IF fr = << >> /\ desc_nolang # << >>
        THEN join_texts(desc_nolang, SepPara)
        ELSE fr

\* line 177
description_en(dc_root) == join_texts(SelectSeq(dc_root.description, IsEn), SepPara)

\* lines 141-142 and 182-184: one column per contributor
contributor_columns(contributors, max_contributors) ==
    [i \in 1..max_contributors |->
        IF i <= Len(contributors) THEN contributors[i] ELSE << >>]

\* line 168: the first date of the joined string
first_date(date) ==
    IF date = << >> THEN << >>
    ELSE LET bars == {i \in 1..(Len(date) - 2) : SubSeq(date, i, i + 2) = SepBar}
         IN  IF bars = {} THEN Strip(date)
             ELSE Strip(SubSeq(date, 1, (CHOOSE i \in bars : \A j \in bars : i <= j) - 1))

\* the row of lines 122-142, before the metadata is read
header_row(rec, max_contributors) ==
    LET sets == texts(rec.setSpec)
        acc  == ClassifySets(SetsInit, sets)
    IN  [oai_id         |-> Strip(rec.identifier),
         setSpecs_raw   |-> Join(sets, SepBar),
         set_etab       |-> acc.set_etab,
         set_ddc        |-> acc.set_ddc,
         is_diffusable  |-> acc.is_diffusable,
         title          |-> << >>,
         subject        |-> << >>,
         description_fr |-> << >>,
         description_en |-> << >>,
         language       |-> << >>,
         identifier     |-> << >>,
         creator        |-> << >>,
         date           |-> << >>,
         year           |-> << >>,
         rights         |-> << >>,
         contributor    |-> contributor_columns(<< >>, max_contributors)]

\* lines 155-184
content_row(row, dc_root, max_contributors) ==
    LET date == join_texts(dc_root.date, SepBar)
    IN  [row EXCEPT
            !.rights         = join_texts(dc_root.rights, SepBar),
            !.title          = join_texts(dc_root.title, SepBar),
            !.language       = join_texts(dc_root.language, SepBar),
            !.identifier     = join_texts(dc_root.identifier, SepBar),
            !.creator        = join_texts(dc_root.creator, SepBar),
            !.subject        = join_texts(dc_root.subject, SepBar),
            !.date           = date,
            !.year           = extract_year(first_date(date)),
            !.description_fr = description_fr(dc_root),
            !.description_en = description_en(dc_root),
            !.contributor    = contributor_columns(texts(dc_root.contributor),
                                                   max_contributors)]

\* extract_record: the pair (row, ok)
extract_record(rec, max_contributors) ==
    LET row == header_row(rec, max_contributors)
    IN  IF rec.md = << >> THEN [row |-> row, ok |-> FALSE]
        ELSE IF ~has_open_access(rec.md[1]) THEN [row |-> row, ok |-> FALSE]
        ELSE [row |-> content_row(row, rec.md[1], max_contributors), ok |-> TRUE]

-----------------------------------------------------------------------------
(* The endpoint: the documents it can return.                              *)

Node(t) == [text |-> Some(t)]
EmptyNode == [text |-> None]
Desc(lang, t) == [lang |-> lang, text |-> Some(t)]

Dc(rights, title, description, contributor, date) ==
    [rights |-> rights, title |-> title, subject |-> << >>, language |-> <<Node(<<"fr">>)>>,
     identifier |-> << >>, creator |-> << >>, date |-> date,
     description |-> description, contributor |-> contributor]

OpenAccessPadded == <<" ", "Open", " ", "Access", " ">>

\* not deleted, open access, two contributors
RecOA ==
    [identifier |-> <<"oai", ":", "A">>, status |-> << >>,
     setSpec |-> <<Node(DIFFUSABLE), Node(<<"ddc", ":", "620">>)>>,
     md |-> <<Dc(<<Node(OpenAccessPadded)>>, <<Node(<<"Thesis", " ", "A">>)>>,
                 <<Desc(None, <<"resume">>)>>,
                 <<Node(<<"c1">>), Node(<<"c2">>)>>,
                 <<Node(<<"2019", "-", "05", "-", "10">>)>>)>>]

\* not deleted, open access among several rights values, four contributors
RecOA2 ==
    [identifier |-> <<"oai", ":", "B">>, status |-> << >>,
     setSpec |-> <<Node(<<"CNAM">>), Node(<<"ddc", ":", "004">>)>>,
     md |-> <<Dc(<<Node(<<"restricted">>), EmptyNode, Node(<<"OPEN", " ", "ACCESS">>)>>,
                 <<Node(<<"Thesis", " ", "B">>)>>,
                 <<Desc(Some("fr"), <<"resume">>), Desc(Some("en"), <<"abstract">>)>>,
                 <<Node(<<"c1">>), Node(<<"c2">>), Node(<<"c3">>), Node(<<"c4">>)>>,
                 <<Node(<<"circa", " ", "1998", "?">>)>>)>>]

\* not deleted, metadata without an open-access rights value
RecClosed ==
    [identifier |-> <<"oai", ":", "C">>, status |-> << >>,
     setSpec |-> <<Node(DIFFUSABLE)>>,
     md |-> <<Dc(<<Node(<<"Open", " ", "Access", " ", "policy">>), Node(<<"restricted">>)>>,
                 <<Node(<<"Thesis", " ", "C">>)>>, << >>, << >>, << >>)>>]

\* not deleted, no metadata payload
RecNoMd ==
    [identifier |-> <<"oai", ":", "D">>, status |-> << >>,
     setSpec |-> <<Node(DIFFUSABLE)>>, md |-> << >>]

\* header status="deleted", no metadata payload
RecDeleted ==
    [identifier |-> <<"oai", ":", "E">>, status |-> <<"deleted">>,
     setSpec |-> <<Node(DIFFUSABLE)>>, md |-> << >>]

\* header status="deleted" with an open-access payload still attached
RecDeletedOA ==
    [identifier |-> <<"oai", ":", "F">>, status |-> <<" ", "deleted">>,
     setSpec |-> <<Node(DIFFUSABLE)>>,
     md |-> <<Dc(<<Node(<<"Open", " ", "Access">>)>>, <<Node(<<"Thesis", " ", "F">>)>>,
                 << >>, << >>, << >>)>>]

\* the record lists of the pages the endpoint can serve
RecordLists ==
    { << >>,
      <<RecOA, RecDeleted, RecOA2>>,
      <<RecOA2, RecOA2>>,
      <<RecClosed, RecNoMd>>,
      <<RecDeletedOA, RecOA>> }

\* the resumptionToken elements a page can carry
TokenEls ==
    { << >>,                                   \* no element
      <<EmptyNode>>,                           \* <resumptionToken/>
      <<Node(<<" ">>)>>,                       \* whitespace only
      <<Node(<<"t1">>)>>,
      <<Node(<<" ", "t2", " ">>), Node(<<"t1">>)>> }

\* the page is the endpoint's last: no resumptionToken element, or a blank one
CursorAbsent(token_el) ==
    IF token_el = << >> THEN TRUE ELSE IsBlank(TextOr(token_el[1]))

Docs == [records : RecordLists, token_el : TokenEls]

\* what makes requests.get / raise_for_status / etree.fromstring raise
FailureKinds == {"transport", "status", "parse"}

-----------------------------------------------------------------------------
(* harvest, lines 192-243 *)

\* max_contributors: int = 3
DefaultMaxContributors == 3

METADATA_PREFIX == <<"oai_dc">>

\* --max-pages: None or an int
LimitOpts == {None} \cup {Some(n) : n \in -1..MaxLimit}

\* --set-spec: a str, possibly empty
SetSpecOpts == {Some(<< >>), Some(DIFFUSABLE)}

\* fieldnames, lines 200-204: (column name, contributor index)
fieldnames(max_contributors) ==
    << <<"oai_id", 0>>, <<"setSpecs_raw", 0>>, <<"set_etab", 0>>, <<"set_ddc", 0>>,
       <<"is_diffusable", 0>>, <<"title", 0>>, <<"subject", 0>>,
       <<"description_fr", 0>>, <<"description_en", 0>>, <<"language", 0>>,
       <<"identifier", 0>>, <<"creator", 0>>, <<"date", 0>>, <<"year", 0>>,
       <<"rights", 0>> >>
    \o [i \in 1..max_contributors |-> <<"contributor", i>>]

VARIABLES
    cfg,        \* the arguments of harvest: set_spec, max_pages, max_contributors
    pc,         \* "init", "fetch", "records", "done", "aborted"; "off" outside a run
    fileOpen,   \* the with-block holds the output file open
    sink,       \* the output file: [header : optional fieldnames, rows : the rows]
    token,      \* Optional[str]
    page,
    records,    \* the records of the page being processed
    idx,        \* position of the for loop in records
    seen,
    kept,
    report,     \* the printed summary, None before it is printed
    requests,   \* history: the params of every request issued
    pages,      \* history: the documents received and parsed
    wrote,      \* history: per record reached by the for loop, whether a row was written
    failure,    \* the exception that ended the run, None if none
    xin,        \* extract_record alone: the record given
    xout        \* extract_record alone: the result, None before the call

vars == <<cfg, pc, fileOpen, sink, token, page, records, idx, seen, kept, report,
          requests, pages, wrote, failure, xin, xout>>

xvars == <<xin, xout>>
hvars == <<cfg, pc, fileOpen, sink, token, page, records, idx, seen, kept, report,
           requests, pages, wrote, failure>>

NoRecord == [identifier |-> << >>, status |-> << >>, setSpec |-> << >>, md |-> << >>]

Init ==
    /\ cfg \in [set_spec : SetSpecOpts, max_pages : LimitOpts,
                max_contributors : {DefaultMaxContributors}]
    /\ pc = "init"
    /\ fileOpen = FALSE
    /\ sink = [header |-> None, rows |-> << >>]
    /\ token = None
    /\ page = 0
    /\ records = << >>
    /\ idx = 1
    /\ seen = 0
    /\ kept = 0
    /\ report = None
    /\ requests = << >>
    /\ pages = << >>
    /\ wrote = << >>
    /\ failure = None
    /\ xin = NoRecord
    /\ xout = None

\* lines 206-214: open the file, write the header, token = None, page = 0
OpenOut ==
    /\ pc = "init"
    /\ fileOpen' = TRUE
    /\ sink' = [header |-> Some(fieldnames(cfg.max_contributors)), rows |-> << >>]
    /\ kept' = 0
    /\ seen' = 0
    /\ token' = None
    /\ page' = 0
    /\ pc' = "fetch"
    /\ UNCHANGED <<cfg, records, idx, report, requests, pages, wrote, failure, xvars>>

\* the endpoint is finite: its MaxFetch-th page carries no cursor
EndpointCanServe(doc) ==
    Len(requests) + 1 >= MaxFetch => CursorAbsent(doc.token_el)

\* lines 217-221, the request succeeds and the payload parses
FetchOk(doc) ==
    /\ pc = "fetch"
    /\ EndpointCanServe(doc)
    /\ requests' = Append(requests, oai_params(METADATA_PREFIX, cfg.set_spec, token))
    /\ pages' = Append(pages, doc)
    /\ records' = parse_page(doc).records
    /\ token' = Some(parse_page(doc).token)
    /\ idx' = 1
    /\ pc' = "records"
    /\ UNCHANGED <<cfg, fileOpen, sink, page, seen, kept, report, wrote, failure, xvars>>

\* mutant: the file is opened without a with-block and stays open
FetchFail_LeaveOpen(kind) ==
    /\ pc = "fetch"
    /\ requests' = Append(requests, oai_params(METADATA_PREFIX, cfg.set_spec, token))
    /\ failure' = Some(kind)
    /\ pc' = "aborted"
    /\ UNCHANGED <<cfg, fileOpen, sink, token, page, records, idx, seen, kept, report,
                   pages, wrote, xvars>>

\* lines 218, 219 or 77 raise: the exception leaves the with-block, which closes the file
FetchFail(kind) ==
    /\ pc = "fetch"
    /\ requests' = Append(requests, oai_params(METADATA_PREFIX, cfg.set_spec, token))
    /\ failure' = Some(kind)
    /\ fileOpen' = FALSE
    /\ pc' = "aborted"
    /\ UNCHANGED <<cfg, sink, token, page, records, idx, seen, kept, report, pages,
                   wrote, xvars>>

\* line 224
header_status(rec) == Strip(rec.status)

\* mutant: a row already in the output is not written again
ProcessRecord_Dedup ==
    /\ pc = "records"
    /\ idx <= Len(records)
    /\ LET rec == records[idx]
           res == extract_record(rec, cfg.max_contributors)
       IN  IF header_status(rec) = <<"deleted">>
           THEN /\ wrote' = Append(wrote, FALSE)
                /\ UNCHANGED <<seen, kept, sink>>
           ELSE /\ seen' = seen + 1
                /\ IF res.ok /\ ~(\E i \in DOMAIN sink.rows : sink.rows[i] = res.row)
                   THEN /\ sink' = [sink EXCEPT !.rows = Append(@, res.row)]
                        /\ kept' = kept + 1
                        /\ wrote' = Append(wrote, TRUE)
                   ELSE /\ wrote' = Append(wrote, FALSE)
                        /\ UNCHANGED <<sink, kept>>
    /\ idx' = idx + 1
    /\ UNCHANGED <<cfg, pc, fileOpen, token, page, records, report, requests, pages,
                   failure, xvars>>

\* mutant: kept counts every record that is not deleted
ProcessRecord_KeptAll ==
    /\ pc = "records"
    /\ idx <= Len(records)
    /\ LET rec == records[idx]
           res == extract_record(rec, cfg.max_contributors)
       IN  IF header_status(rec) = <<"deleted">>
           THEN /\ wrote' = Append(wrote, FALSE)
                /\ UNCHANGED <<seen, kept, sink>>
           ELSE /\ seen' = seen + 1
                /\ kept' = kept + 1
                /\ IF res.ok
                   THEN /\ sink' = [sink EXCEPT !.rows = Append(@, res.row)]
                        /\ wrote' = Append(wrote, TRUE)
                   ELSE /\ wrote' = Append(wrote, FALSE)
                        /\ UNCHANGED sink
    /\ idx' = idx + 1
    /\ UNCHANGED <<cfg, pc, fileOpen, token, page, records, report, requests, pages,
                   failure, xvars>>

\* one iteration of the for loop, lines 223-232
ProcessRecord ==
    /\ pc = "records"
    /\ idx <= Len(records)
    /\ LET rec == records[idx]
           res == extract_record(rec, cfg.max_contributors)
       IN  IF header_status(rec) = <<"deleted">>
           THEN /\ wrote' = Append(wrote, FALSE)
                /\ UNCHANGED <<seen, kept, sink>>
           ELSE /\ seen' = seen + 1
                /\ IF res.ok
                   THEN /\ sink' = [sink EXCEPT !.rows = Append(@, res.row)]
                        /\ kept' = kept + 1
                        /\ wrote' = Append(wrote, TRUE)
                   ELSE /\ wrote' = Append(wrote, FALSE)
                        /\ UNCHANGED <<sink, kept>>
    /\ idx' = idx + 1
    /\ UNCHANGED <<cfg, pc, fileOpen, token, page, records, report, requests, pages,
                   failure, xvars>>

\* lines 235-238: the loop breaks after the page just counted
LoopBreaks(max_pages, page_now, tok) ==
    IF max_pages # None /\ page_now >= max_pages[1] THEN TRUE
    ELSE ~Truthy(tok)

\* lines 234-243: end of a page; on break the file is closed and the summary printed
EndPage ==
    /\ pc = "records"
    /\ idx > Len(records)
    /\ page' = page + 1
    /\ IF LoopBreaks(cfg.max_pages, page + 1, token)
       THEN /\ fileOpen' = FALSE
            /\ report' = Some([seen |-> seen, kept |-> kept])
            /\ pc' = "done"
       ELSE /\ pc' = "fetch"
            /\ UNCHANGED <<fileOpen, report>>
    /\ UNCHANGED <<cfg, sink, token, records, idx, seen, kept, requests, pages, wrote,
                   failure, xvars>>

Next ==
    \/ OpenOut
    \/ \E doc \in Docs : FetchOk(doc)
    \/ \E kind \in FailureKinds : FetchFail(kind)
    \/ ProcessRecord
    \/ EndPage

Spec == Init /\ [][Next]_vars

-----------------------------------------------------------------------------
(* extract_record alone, on bounded inputs *)

BoundedSeqs(S, n) == UNION {[1..k -> S] : k \in 0..n}

TagNodes ==
    { Node(DIFFUSABLE), Node(<<" ", "diffusable", " ">>),
      Node(<<"ddc", ":", "620">>), Node(<<"ddc", ":", "004">>),
      Node(<<"CNAM">>), Node(<<"PARI">>), Node(<<"inst", ":", "X">>),
      Node(<<"ddc">>), Node(<<" ">>) }

DescNodes ==
    [lang : {None, Some("fr"), Some("en"), Some("de")},
     text : {Some(<<"A">>), Some(<<" ", "B">>), Some(<<" ">>)}]

DcOA(description) ==
    Dc(<<Node(<<"Open", " ", "Access">>)>>, <<Node(<<"T">>)>>, description, << >>, << >>)

\* records that vary in their category tags, with and without an accepted payload
XTagRecs ==
    {[identifier |-> <<"oai", ":", "X">>, status |-> << >>, setSpec |-> t, md |-> m] :
        t \in BoundedSeqs(TagNodes, MaxTags), m \in {<< >>, <<DcOA(<< >>)>>}}

\* accepted records that vary in their descriptions
XDescRecs ==
    {[identifier |-> <<"oai", ":", "X">>, status |-> << >>,
      setSpec |-> <<Node(DIFFUSABLE)>>, md |-> <<DcOA(d)>>] :
        d \in BoundedSeqs(DescNodes, MaxDescs)}

InitExtract ==
    /\ cfg = [set_spec |-> Some(DIFFUSABLE), max_pages |-> None,
              max_contributors |-> DefaultMaxContributors]
    /\ pc = "off"
    /\ fileOpen = FALSE
    /\ sink = [header |-> None, rows |-> << >>]
    /\ token = None
    /\ page = 0
    /\ records = << >>
    /\ idx = 1
    /\ seen = 0
    /\ kept = 0
    /\ report = None
    /\ requests = << >>
    /\ pages = << >>
    /\ wrote = << >>
    /\ failure = None
    /\ xin \in XTagRecs \cup XDescRecs
    /\ xout = None

\* row, ok = extract_record(rec, max_contributors=max_contributors)
Extract ==
    /\ pc = "off"
    /\ xout = None
    /\ xout' = Some(extract_record(xin, cfg.max_contributors))
    /\ UNCHANGED <<hvars, xin>>

NextExtract == Extract

SpecExtract == InitExtract /\ [][NextExtract]_vars

-----------------------------------------------------------------------------
(* What the properties speak about *)

RECURSIVE AllRecords(_)
\* the records of a sequence of pages, in the order the endpoint returned them
AllRecords(ps) ==
    IF ps = << >> THEN << >> ELSE Head(ps).records \o AllRecords(Tail(ps))

\* the records the for loop has gone through so far
Processed ==
    IF pc = "records"
    THEN AllRecords(SubSeq(pages, 1, Len(pages) - 1)) \o SubSeq(records, 1, idx - 1)
    ELSE AllRecords(pages)

\* the header of the record is marked deleted
MarkedDeleted(rec) == Strip(rec.status) = <<"deleted">>

\* the metadata payload has a rights value that is "open access" once trimmed and
\* lower-cased
HasOpenAccessRights(rec) ==
    /\ rec.md # << >>
    /\ \E i \in DOMAIN rec.md[1].rights :
          LET n == rec.md[1].rights[i]
          IN  n.text # None /\ Lower(Strip(n.text[1])) = OPEN_ACCESS

Accepted(rec) == ~MarkedDeleted(rec) /\ HasOpenAccessRights(rec)

RECURSIVE AcceptedIds(_)
\* the identifiers of the accepted records of a sequence, in order
AcceptedIds(recs) ==
    IF recs = << >> THEN << >>
    ELSE (IF Accepted(Head(recs)) THEN <<Strip(Head(recs).identifier)>> ELSE << >>)
         \o AcceptedIds(Tail(recs))

RowIds == [i \in DOMAIN sink.rows |-> sink.rows[i].oai_id]

Fetches == Len(requests)

-----------------------------------------------------------------------------
\* C1: for every record the loop has gone through, a row was written for it if and
\* only if its header is not marked deleted and its payload has a rights value that,
\* trimmed and lower-cased, equals "open access"; the output holds one row per
\* record so written.
C1_RowIffOpenAccess ==
    /\ Len(wrote) = Len(Processed)
    /\ \A i \in DOMAIN wrote : wrote[i] <=> Accepted(Processed[i])
    /\ Len(sink.rows) = Cardinality({i \in DOMAIN wrote : wrote[i]})
    /\ RowIds = AcceptedIds(Processed)

\* a finished run that met an accepted record written in another case, a deleted
\* record that carries an open-access payload, and a record without that rights value
C1_Witness ==
    /\ pc = "done"
    /\ \E i, j, k \in DOMAIN wrote :
          /\ wrote[i] /\ Processed[i] = RecOA2
          /\ ~wrote[j] /\ Processed[j] = RecDeletedOA
          /\ ~wrote[k] /\ Processed[k] = RecClosed

\* C2: a step of the for loop on a record that is marked deleted, or that has no
\* metadata payload, writes no row, leaves kept unchanged and adds one to seen.
C2_SkippedStillSeen ==
    [][(pc = "records" /\ idx <= Len(records) /\ idx' = idx + 1
        /\ (MarkedDeleted(records[idx]) \/ records[idx].md = << >>))
       => (sink' = sink /\ kept' = kept /\ seen' = seen + 1)]_vars

\* C3: once the page whose cursor is empty, absent or blank has been processed, and
\* the page limit is absent or at least that page's number N, the loop has returned
\* after exactly N fetches; the loop does not return on an earlier page unless the
\* limit is reached; and until it returns or raises the loop is at a fetch or inside
\* the records of a page.
C3_ExactlyNFetches ==
    /\ pc \in {"init", "fetch", "records", "done", "aborted"}
    /\ pc = "records" => idx \in 1..(Len(records) + 1)
    /\ \A n \in DOMAIN pages :
          ( /\ CursorAbsent(pages[n].token_el)
            /\ (cfg.max_pages = None \/ cfg.max_pages[1] >= n)
            /\ (n < Len(pages) \/ pc # "records") )
          => (pc = "done" /\ Fetches = n)
    /\ (pc = "done" /\ (cfg.max_pages = None \/ Fetches < cfg.max_pages[1]))
          => CursorAbsent(pages[Len(pages)].token_el)

\* a run that returned after three fetches, its last cursor blank, under a higher limit
\* or none
C3_Witness ==
    /\ pc = "done"
    /\ Fetches = 3
    /\ pages[3].token_el = <<Node(<<" ">>)>>
    /\ (cfg.max_pages = None \/ cfg.max_pages[1] > 3)

\* C4: under a page limit L >= 0 the loop never performs more than L fetches.
C4_AtMostLFetches ==
    (cfg.max_pages # None /\ cfg.max_pages[1] >= 0) => Fetches <= cfg.max_pages[1]

\* C5: the rows of the output are, in order and with repetitions, the accepted
\* records among those the loop has gone through.
C5_RowsInEncounterOrder ==
    /\ RowIds = AcceptedIds(Processed)
    /\ \A i \in DOMAIN sink.rows :
          \E j \in DOMAIN Processed :
             sink.rows[i] = extract_record(Processed[j], cfg.max_contributors).row

\* a run that wrote the same record twice and two different records in both orders
C5_Witness ==
    /\ \E i \in DOMAIN sink.rows : i > 1 /\ sink.rows[i] = sink.rows[i - 1]
    /\ \E i, j \in DOMAIN RowIds :
          i < j /\ RowIds[i] = <<"oai", ":", "A">> /\ RowIds[j] = <<"oai", ":", "B">>
    /\ \E i, j \in DOMAIN RowIds :
          i < j /\ RowIds[i] = <<"oai", ":", "B">> /\ RowIds[j] = <<"oai", ":", "A">>

\* C6: the first request is verb=ListRecords with the metadata prefix, the set filter
\* when one is configured, and no resumption token; every later request is exactly
\* verb=ListRecords with the non-empty cursor of the page before it.
C6_RequestShape ==
    \A i \in DOMAIN requests :
        IF i = 1
        THEN requests[i] =
                {<<"verb", <<"ListRecords">>>>, <<"metadataPrefix", METADATA_PREFIX>>}
                \cup (IF cfg.set_spec[1] # << >> THEN {<<"set", cfg.set_spec[1]>>} ELSE {})
        ELSE /\ parse_page(pages[i - 1]).token # << >>
             /\ requests[i] =
                   {<<"verb", <<"ListRecords">>>>,
                    <<"resumptionToken", parse_page(pages[i - 1]).token>>}

\* three requests, the second and third carrying different cursors, with a set filter
C6_Witness ==
    /\ Fetches = 3
    /\ cfg.set_spec = Some(DIFFUSABLE)
    /\ <<"resumptionToken", <<"t1">>>> \in requests[2]
    /\ <<"resumptionToken", <<"t2">>>> \in requests[3]

\* C7: a failed fetch or parse ends the run at once: nothing more can happen, the
\* failed request was the last one, the file is closed, no summary is printed, and
\* the output is the header and the accepted rows of the pages before.
C7_AbortOnFailure ==
    /\ (failure # None) <=> (pc = "aborted")
    /\ pc = "aborted" =>
          /\ ~fileOpen
          /\ ~ENABLED Next
          /\ Fetches = Len(pages) + 1
          /\ report = None
          /\ sink.header = Some(fieldnames(cfg.max_contributors))
          /\ RowIds = AcceptedIds(AllRecords(pages))

\* the third fetch failed to parse after two pages that gave rows
C7_Witness ==
    /\ pc = "aborted"
    /\ failure = Some("parse")
    /\ Fetches = 3
    /\ Len(sink.rows) >= 2

-----------------------------------------------------------------------------
(* Properties of extract_record *)

XSets == texts(xin.setSpec)
XRow == xout[1].row

Min(S) == CHOOSE i \in S : \A j \in S : i <= j
Max(S) == CHOOSE i \in S : \A j \in S : i >= j

\* C8: set_ddc is the last tag starting with "ddc:", is_diffusable is "1" iff some
\* tag equals "diffusable", set_etab is the first tag with no colon that is not
\* "diffusable"; each is empty ("0") when there is no such tag.
C8_TagClassification ==
    xout # None =>
        LET D == {i \in DOMAIN XSets : StartsWithDdc(XSets[i])}
            E == {i \in DOMAIN XSets : ~HasColon(XSets[i]) /\ XSets[i] # DIFFUSABLE}
        IN  /\ XRow.set_ddc = (IF D = {} THEN << >> ELSE XSets[Max(D)])
            /\ XRow.is_diffusable =
                  (IF \E i \in DOMAIN XSets : XSets[i] = DIFFUSABLE THEN <<"1">> ELSE <<"0">>)
            /\ XRow.set_etab = (IF E = {} THEN << >> ELSE XSets[Min(E)])

\* two ddc tags and two institution candidates, interleaved, in one record
C8_Witness ==
    /\ xout # None
    /\ xin.setSpec = <<Node(<<"ddc", ":", "620">>), Node(<<"CNAM">>),
                       Node(<<"ddc", ":", "004">>), Node(<<"PARI">>)>>
    /\ XRow.set_etab = <<"CNAM">>
    /\ XRow.set_ddc = <<"ddc", ":", "004">>
    /\ XRow.is_diffusable = <<"0">>

XDesc == xin.md[1].description

\* C9 as stated: description_fr comes from the fr-tagged descriptions whenever the
\* record has any fr-tagged description, and from the untagged ones otherwise;
\* description_en comes from the en-tagged ones.
C9_FrWheneverFrTagged ==
    (xout # None /\ xout[1].ok) =>
        /\ XRow.description_fr =
              (IF SelectSeq(XDesc, IsFr) # << >>
               THEN join_texts(SelectSeq(XDesc, IsFr), SepPara)
               ELSE join_texts(SelectSeq(XDesc, IsNoLang), SepPara))
        /\ XRow.description_en = join_texts(SelectSeq(XDesc, IsEn), SepPara)

\* C9 amended: description_fr comes from the fr-tagged descriptions whenever one of
\* them has non-blank text, and from the untagged ones otherwise; description_en
\* comes from the en-tagged ones.
C9_FrWheneverFrText ==
    (xout # None /\ xout[1].ok) =>
        /\ XRow.description_fr =
              (IF texts(SelectSeq(XDesc, IsFr)) # << >>
               THEN Join(texts(SelectSeq(XDesc, IsFr)), SepPara)
               ELSE Join(texts(SelectSeq(XDesc, IsNoLang)), SepPara))
        /\ XRow.description_en = Join(texts(SelectSeq(XDesc, IsEn)), SepPara)

\* an accepted record with an untagged, an fr-tagged and an en-tagged description, all
\* with text: description_fr is the fr text alone
C9_Witness ==
    /\ xout # None
    /\ xout[1].ok
    /\ XDesc = <<Desc(None, <<"A">>), Desc(Some("fr"), <<" ", "B">>), Desc(Some("en"), <<"A">>)>>
    /\ XRow.description_fr = <<"B">>
    /\ XRow.description_en = <<"A">>

-----------------------------------------------------------------------------
\* C10: kept is the number of rows written and is at most seen; neither counter ever
\* decreases; the summary printed on return carries the final values of both.
C10_Counters ==
    /\ [](/\ kept = Len(sink.rows)
          /\ kept <= seen
          /\ (pc = "done") <=> (report # None)
          /\ pc = "done" => report = Some([seen |-> seen, kept |-> kept]))
    /\ [][seen' >= seen /\ kept' >= kept]_vars

\* a finished run that kept some of the records it saw, not all
C10_Witness ==
    /\ pc = "done"
    /\ kept >= 2
    /\ seen > kept

=============================================================================
